---- MODULE Spec2Model ----
(***************************************************************************)
(* pline.easy: the PipelineOptions resolver (explicit table over the       *)
(* process environment) and the EasyPipeline builder (get-or-create        *)
(* accessors over the pipeline's object collection).                       *)
(*                                                                         *)
(* Strings are TLA+ strings; a missing value is Python's None.  A dict is  *)
(* a function whose DOMAIN is its key set.  An object of the pipeline is a *)
(* record [ref, cls, id, attrs]; ref is the Python object's identity.      *)
(***************************************************************************)
EXTENDS Integers, Sequences, FiniteSets, TLC

VARIABLES
    env,          \* os.environ: variable name -> value
    pc,           \* "start", "options" (resolver built), "built", "failed"
    _env_prefix,  \* PipelineOptions._env_prefix
    _items,       \* PipelineOptions._items
    env_prefix,   \* the env_prefix argument PipelineOptions was constructed with
    objects,      \* EasyPipeline.objects.collection, in insertion order
    nextRef,      \* identity of the next object to be allocated
    name,         \* Pipeline.name
    region_name,  \* Pipeline.region_name
    ret,          \* the last call: [op, arg, exc, val]
    last          \* the last accessor call, kept across the caller's field writes

vars == <<env, pc, _env_prefix, _items, env_prefix, objects, nextRef, name, region_name, ret, last>>

None == "<None>"
EmptyDict == [k \in {} |-> None]

(***************************************************************************)
(* PipelineOptions                                                         *)
(***************************************************************************)

\* '{}_'.format(env_prefix) when env_prefix is truthy, else ''
EnvPrefix(prefix) ==
    IF prefix # None /\ prefix # "" THEN prefix \o "_" ELSE ""

\* os.environ.get('%s%s' % (prefix, key), default)
_getenv(e, prefix, key, default) ==
    LET var == prefix \o key
    IN  IF var \in DOMAIN e THEN e[var] ELSE default

\* The seeding without the environment: setdefault(k, v)
NewItemsLiteral(e, prefix, options, defaults) ==
    [k \in DOMAIN options \cup DOMAIN defaults |->
        IF k \in DOMAIN options THEN options[k] ELSE defaults[k]]

\* dict.update(options), then setdefault(k, _getenv(k, v)) for each default
NewItems(e, prefix, options, defaults) ==
    [k \in DOMAIN options \cup DOMAIN defaults |->
        IF k \in DOMAIN options THEN options[k]
        ELSE _getenv(e, prefix, k, defaults[k])]

\* The lookup with a truthiness test: self._items.get(key) or self._getenv(key)
__getitem__Truthy(e, prefix, items, key) ==
    IF key \in DOMAIN items /\ items[key] # ""
    THEN [exc |-> "", val |-> items[key]]
    ELSE LET val == _getenv(e, prefix, key, None)
         IN  IF val = None
             THEN [exc |-> "KeyError", val |-> key]
             ELSE [exc |-> "", val |-> val]

\* __getitem__: the value, or KeyError
__getitem__(e, prefix, items, key) ==
    IF key \in DOMAIN items
    THEN [exc |-> "", val |-> items[key]]
    ELSE LET val == _getenv(e, prefix, key, None)
         IN  IF val = None
             THEN [exc |-> "KeyError", val |-> key]
             ELSE [exc |-> "", val |-> val]

\* Mapping.__contains__: self[key] does not raise KeyError
__contains__(e, prefix, items, key) ==
    __getitem__(e, prefix, items, key).exc # "KeyError"

\* __setitem__: self._items[key] = value
__setitem__(items, key, value) ==
    [k \in DOMAIN items \cup {key} |-> IF k = key THEN value ELSE items[k]]

\* The deletion as a dict does it: self._items.pop(key, None)
__delitem__Pop(items, key) ==
    [exc |-> "", items |-> [k \in DOMAIN items \ {key} |-> items[k]]]

\* __delitem__, __iter__, __len__ raise before touching the table
__delitem__(items, key) == [exc |-> "NotImplementedError", items |-> items]

__iter__(items) == [exc |-> "NotImplementedError", val |-> None]

__len__(items) == [exc |-> "NotImplementedError", val |-> None]

\* A call as the caller sees it: what was called with which key or id, the
\* exception raised ("" for none) and what came back: a value, an object's
\* identity (0 for none), or the keys a ValueError names
Call(op, arg, exc, val) ==
    [op |-> op, arg |-> arg, exc |-> exc, val |-> val, obj |-> 0,
     missing |-> <<>>, options |-> EmptyDict, defaults |-> EmptyDict]

CallObj(op, arg, exc, obj) == [Call(op, arg, exc, None) EXCEPT !.obj = obj]

BuilderUnchanged == UNCHANGED <<objects, nextRef, name, region_name, last>>

\* PipelineOptions(options, defaults, env_prefix)
PipelineOptionsInit(options, defaults, prefix) ==
    /\ pc = "start"
    /\ pc' = "options"
    /\ env_prefix' = prefix
    /\ _env_prefix' = EnvPrefix(prefix)
    /\ _items' = NewItems(env, EnvPrefix(prefix), options, defaults)
    /\ ret' = [Call("PipelineOptions", None, "", None)
                 EXCEPT !.options = options, !.defaults = defaults]
    /\ UNCHANGED env
    /\ BuilderUnchanged

\* options[key] = value
SetItem(key, value) ==
    /\ pc = "options"
    /\ _items' = __setitem__(_items, key, value)
    /\ ret' = Call("set", key, "", value)
    /\ UNCHANGED <<env, pc, _env_prefix, env_prefix>>
    /\ BuilderUnchanged

\* options[key]
GetItem(key) ==
    /\ pc = "options"
    /\ LET r == __getitem__(env, _env_prefix, _items, key)
       IN  ret' = Call("get", key, r.exc, r.val)
    /\ UNCHANGED <<env, pc, _env_prefix, env_prefix, _items>>
    /\ BuilderUnchanged

\* del options[key]
DelItem(key) ==
    /\ pc = "options"
    /\ LET r == __delitem__(_items, key)
       IN  /\ _items' = r.items
           /\ ret' = Call("del", key, r.exc, None)
    /\ UNCHANGED <<env, pc, _env_prefix, env_prefix>>
    /\ BuilderUnchanged

\* iter(options)
Iter ==
    /\ pc = "options"
    /\ LET r == __iter__(_items)
       IN  ret' = Call("iter", None, r.exc, r.val)
    /\ UNCHANGED <<env, pc, _env_prefix, env_prefix, _items>>
    /\ BuilderUnchanged

\* len(options)
Length ==
    /\ pc = "options"
    /\ LET r == __len__(_items)
       IN  ret' = Call("len", None, r.exc, r.val)
    /\ UNCHANGED <<env, pc, _env_prefix, env_prefix, _items>>
    /\ BuilderUnchanged

\* The process environment changes under the resolver: os.environ[var] = value
PutEnv(var, value) ==
    /\ pc = "options"
    /\ env' = [v \in DOMAIN env \cup {var} |-> IF v = var THEN value ELSE env[v]]
    /\ ret' = Call("putenv", var, "", value)
    /\ UNCHANGED <<pc, _env_prefix, env_prefix, _items>>
    /\ BuilderUnchanged

\* del os.environ[var]
UnsetEnv(var) ==
    /\ pc = "options"
    /\ var \in DOMAIN env
    /\ env' = [v \in DOMAIN env \ {var} |-> env[v]]
    /\ ret' = Call("unsetenv", var, "", None)
    /\ UNCHANGED <<pc, _env_prefix, env_prefix, _items>>
    /\ BuilderUnchanged

(***************************************************************************)
(* EasyPipeline                                                            *)
(***************************************************************************)

REQUIRED_OPTIONS ==
    <<"LOG_URI", "PIPELINE_ROLE", "PIPELINE_RESOURCE_ROLE", "EC2_AMI",
      "EC2_KEYPAIR", "EC2_SUBNET", "EC2_SECURITY_GROUP">>

\* The fields of a format string: replacement fields, escaped braces, text
Tokenize(s) ==
    CASE s = "{region}-{pipeline_name}" ->
            <<"{region}", "-", "{pipeline_name}">>
      [] s = "s3://{{logs}}/{pipeline_name}" ->
            <<"s3://", "{{", "logs", "}}", "/", "{pipeline_name}">>
      [] OTHER -> <<s>>

RECURSIVE Join(_)
Join(parts) == IF parts = <<>> THEN "" ELSE Head(parts) \o Join(Tail(parts))

\* template.format(region=region, pipeline_name=pipeline_name)
Format(template, region, pipeline_name) ==
    LET toks == Tokenize(template)
    IN  Join([i \in 1..Len(toks) |->
                CASE toks[i] = "{region}" -> region
                  [] toks[i] = "{pipeline_name}" -> pipeline_name
                  [] toks[i] = "{{" -> "{"
                  [] toks[i] = "}}" -> "}"
                  [] OTHER -> toks[i]])

\* The synthesis that substitutes nothing: LOG_URI = LOG_URI_TEMPLATE
SynthesizeRaw(e, prefix, items, n, region) ==
    IF /\ ~__contains__(e, prefix, items, "LOG_URI")
       /\ __contains__(e, prefix, items, "LOG_URI_TEMPLATE")
    THEN __setitem__(items, "LOG_URI",
                     __getitem__(e, prefix, items, "LOG_URI_TEMPLATE").val)
    ELSE items

\* if 'LOG_URI' not in options and 'LOG_URI_TEMPLATE' in options: set LOG_URI
Synthesize(e, prefix, items, n, region) ==
    IF /\ ~__contains__(e, prefix, items, "LOG_URI")
       /\ __contains__(e, prefix, items, "LOG_URI_TEMPLATE")
    THEN __setitem__(items, "LOG_URI",
                     Format(__getitem__(e, prefix, items, "LOG_URI_TEMPLATE").val,
                            region, n))
    ELSE items

\* The validation that stops at the first missing option
FirstMissing(e, prefix, items) ==
    LET all == SelectSeq(REQUIRED_OPTIONS,
                         LAMBDA o : ~__contains__(e, prefix, items, o))
    IN  IF all = <<>> THEN <<>> ELSE <<Head(all)>>

\* missing_opts = [o for o in REQUIRED_OPTIONS if o not in self.options]
MissingOpts(e, prefix, items) ==
    SelectSeq(REQUIRED_OPTIONS, LAMBDA o : ~__contains__(e, prefix, items, o))

\* The first of the option keys a call reads that raises KeyError, or None
KeyErrorIn(e, prefix, items, keys) ==
    LET bad == SelectSeq(keys, LAMBDA o : ~__contains__(e, prefix, items, o))
    IN  IF bad = <<>> THEN None ELSE Head(bad)

Opt(key) == __getitem__(env, _env_prefix, _items, key).val

\* cls(id=id, **kwargs): a new object of the pipeline
NewObject(ref, cls, id, kwargs) ==
    [ref |-> ref, cls |-> cls, id |-> id, attrs |-> kwargs]

\* Pipeline.add(obj)
add(objs, obj) == Append(objs, obj)

\* obj.attr = value
SetAttrs(attrs, attr, value) ==
    [a \in DOMAIN attrs \cup {attr} |-> IF a = attr THEN value ELSE attrs[a]]

\* _get_object: the index of the first object with this id (the class is not
\* looked at), 0 for None
_get_object(objs, id) ==
    IF \E i \in 1..Len(objs) : objs[i].id = id
    THEN CHOOSE i \in 1..Len(objs) :
            objs[i].id = id /\ \A j \in 1..(i - 1) : objs[j].id # id
    ELSE 0

\* The accessor that always constructs: obj = cls(id=id, **kwargs); add(obj)
_ensure_objectAlways(objs, ref, id, cls, kwargs) ==
    [objects |-> add(objs, NewObject(ref, cls, id, kwargs)),
     nextRef |-> ref + 1, obj |-> ref]

\* _ensure_object: the object with this id, constructed and added if absent
_ensure_object(objs, ref, id, cls, kwargs) ==
    LET i == _get_object(objs, id)
    IN  IF i = 0
        THEN [objects |-> add(objs, NewObject(ref, cls, id, kwargs)),
              nextRef |-> ref + 1, obj |-> ref]
        ELSE [objects |-> objs, nextRef |-> ref, obj |-> objs[i].ref]

\* The keyword arguments get_defaults passes
DefaultKwargs(logUri, role, resourceRole) ==
    [name |-> "Default", scheduleType |-> "ondemand",
     failureAndRerunMode |-> "CASCADE", pipelineLogUri |-> logUri,
     role |-> role, resourceRole |-> resourceRole]

DefaultKeys == <<"LOG_URI", "PIPELINE_ROLE", "PIPELINE_RESOURCE_ROLE">>

\* get_defaults, on the registry
EnsureDefaults(objs, ref, kwargs) ==
    _ensure_object(objs, ref, "Default", "DataPipelineObject", kwargs)

\* The objects with obj.attr = value done on the object whose identity is ref
Assign(objs, ref, attr, value) ==
    [i \in 1..Len(objs) |->
        IF objs[i].ref = ref
        THEN [objs[i] EXCEPT !.attrs = SetAttrs(@, attr, value)]
        ELSE objs[i]]

\* The schedule accessor that rewires Default only for a schedule it creates
ScheduleOnCreate(objs, ref, id, kwargs) ==
    LET s == _ensure_object(objs, ref, id, "Schedule", [name |-> id])
        d == EnsureDefaults(s.objects, s.nextRef, kwargs)
    IN  IF _get_object(objs, id) = 0
        THEN [objects |-> Assign(Assign(d.objects, d.obj, "scheduleType", "cron"),
                                 d.obj, "schedule", s.obj),
              nextRef |-> d.nextRef, obj |-> s.obj]
        ELSE [objects |-> d.objects, nextRef |-> d.nextRef, obj |-> s.obj]

\* The schedule accessor that sets the type and forgets the reference
ScheduleTypeOnly(objs, ref, id, kwargs) ==
    LET s == _ensure_object(objs, ref, id, "Schedule", [name |-> id])
        d == EnsureDefaults(s.objects, s.nextRef, kwargs)
    IN  [objects |-> Assign(d.objects, d.obj, "scheduleType", "cron"),
         nextRef |-> d.nextRef, obj |-> s.obj]

\* get_schedule, on the registry: ensure the schedule, ensure Default, then
\* defaults.scheduleType = cron and defaults.schedule = schedule
Schedule(objs, ref, id, kwargs) ==
    LET s == _ensure_object(objs, ref, id, "Schedule", [name |-> id])
        d == EnsureDefaults(s.objects, s.nextRef, kwargs)
    IN  [objects |-> Assign(Assign(d.objects, d.obj, "scheduleType", "cron"),
                            d.obj, "schedule", s.obj),
         nextRef |-> d.nextRef, obj |-> s.obj]

OptionsUnchanged == UNCHANGED <<env, _env_prefix, env_prefix, _items>>

\* EasyPipeline(name, unique_id, options, desc, region)
EasyPipelineInit(n, region) ==
    /\ pc = "options"
    /\ name' = n
    /\ region_name' = region
    /\ _items' = Synthesize(env, _env_prefix, _items, n, region)
    /\ LET missing_opts == MissingOpts(env, _env_prefix, _items')
           logUri == __getitem__(env, _env_prefix, _items', "LOG_URI").val
           d == EnsureDefaults(objects, nextRef,
                               DefaultKwargs(logUri, Opt("PIPELINE_ROLE"),
                                             Opt("PIPELINE_RESOURCE_ROLE")))
       IN  IF missing_opts # <<>>
           THEN /\ pc' = "failed"
                /\ ret' = [Call("EasyPipeline", n, "ValueError", None)
                             EXCEPT !.missing = missing_opts]
                /\ UNCHANGED <<objects, nextRef>>
           ELSE /\ pc' = "built"
                /\ objects' = d.objects
                /\ nextRef' = d.nextRef
                /\ ret' = Call("EasyPipeline", n, "", None)
    /\ UNCHANGED <<env, _env_prefix, env_prefix, last>>

\* An accessor call: the option reads of its keyword arguments come first and
\* may raise KeyError; then the registry changes as `result` says.
Accessor(op, id, keys, result) ==
    /\ pc = "built"
    /\ LET bad == KeyErrorIn(env, _env_prefix, _items, keys)
       IN  IF bad # None
           THEN /\ ret' = Call(op, id, "KeyError", bad)
                /\ UNCHANGED <<objects, nextRef>>
           ELSE /\ objects' = result.objects
                /\ nextRef' = result.nextRef
                /\ ret' = CallObj(op, id, "", result.obj)
    /\ last' = ret'
    /\ UNCHANGED <<pc, name, region_name>>
    /\ OptionsUnchanged

CurrentDefaultKwargs ==
    DefaultKwargs(Opt("LOG_URI"), Opt("PIPELINE_ROLE"), Opt("PIPELINE_RESOURCE_ROLE"))

get_defaults ==
    Accessor("get_defaults", "Default", DefaultKeys,
             EnsureDefaults(objects, nextRef, CurrentDefaultKwargs))

get_shell_command_activity(id) ==
    Accessor("get_shell_command_activity", id, <<>>,
             _ensure_object(objects, nextRef, id, "ShellCommandActivity",
                            [name |-> id, maximumRetries |-> 0]))

\* The schedule is ensured before get_defaults reads its options
get_schedule(id) ==
    /\ pc = "built"
    /\ LET bad == KeyErrorIn(env, _env_prefix, _items, DefaultKeys)
           s == _ensure_object(objects, nextRef, id, "Schedule", [name |-> id])
           r == Schedule(objects, nextRef, id, CurrentDefaultKwargs)
       IN  IF bad # None
           THEN /\ objects' = s.objects
                /\ nextRef' = s.nextRef
                /\ ret' = Call("get_schedule", id, "KeyError", bad)
           ELSE /\ objects' = r.objects
                /\ nextRef' = r.nextRef
                /\ ret' = CallObj("get_schedule", id, "", r.obj)
    /\ last' = ret'
    /\ UNCHANGED <<pc, name, region_name>>
    /\ OptionsUnchanged

get_ec2_resource(id) ==
    Accessor("get_ec2_resource", id,
             <<"EC2_AMI", "EC2_KEYPAIR", "EC2_SUBNET", "EC2_SECURITY_GROUP">>,
             _ensure_object(objects, nextRef, id, "Ec2Resource",
                 [name |-> id, actionOnTaskFailure |-> "terminate",
                  actionOnResourceFailure |-> "retryAll", maximumRetries |-> 1,
                  terminateAfter |-> "1 hours", imageId |-> Opt("EC2_AMI"),
                  keyPair |-> Opt("EC2_KEYPAIR"), subnetId |-> Opt("EC2_SUBNET"),
                  securityGroupIds |-> Opt("EC2_SECURITY_GROUP")]))

get_sns_alarm(id) ==
    Accessor("get_sns_alarm", id, <<"PIPELINE_ROLE">>,
             _ensure_object(objects, nextRef, id, "SnsAlarm",
                            [name |-> id, role |-> Opt("PIPELINE_ROLE")]))

get_sns_failure_handler(id) ==
    Accessor("get_sns_failure_handler", id, <<"PIPELINE_ROLE">>,
             _ensure_object(objects, nextRef, id, "SnsAlarm",
                 [name |-> id, role |-> Opt("PIPELINE_ROLE"),
                  subject |-> name \o " FAILED on "
                              \o "#{format(node.@scheduledStartTime,'YYYY-MM-dd')}",
                  message |-> "Pipeline: " \o name
                     \o "\nStatus: #{node.@status}"
                     \o "\nScheduled Time: #{node.@scheduledStartTime}"
                     \o "\n\nPipeline dashboard:\nhttps://console.aws.amazon.com"
                     \o "/datapipeline/home?region=" \o region_name
                     \o "#ExecutionDetailsPlace:pipelineId=#{@pipelineId}&show=latest\n        "]))

\* The caller sets a field of an object it holds: obj.attr = value
SetField(i, attr, value) ==
    /\ pc = "built"
    /\ i \in 1..Len(objects)
    /\ objects' = [objects EXCEPT ![i].attrs = SetAttrs(@, attr, value)]
    /\ ret' = CallObj("setattr", objects[i].id, "", objects[i].ref)
    /\ UNCHANGED <<pc, name, region_name, nextRef, last>>
    /\ OptionsUnchanged

(***************************************************************************)
(* Inputs shared by the specifications of the builder                      *)
(***************************************************************************)

MaxMissing == 2
MaxIds == 1

GeneralKeys == {REQUIRED_OPTIONS[i] : i \in 2..Len(REQUIRED_OPTIONS)}
Names == {"demo"}
Regions == {"us-west-2", "us-east-1"}
DefaultRegion == "us-west-2"

\* The environment main() runs in: PIPELINE_<key> for each key of keys
BuilderEnv(keys) ==
    [v \in {"PIPELINE_" \o k : k \in keys} |->
        IF v = "PIPELINE_LOG_URI_TEMPLATE" THEN "{region}-{pipeline_name}" ELSE "from_env"]

StartWith(e) ==
    /\ pc = "start"
    /\ env = e
    /\ _env_prefix = ""
    /\ env_prefix = None
    /\ _items = EmptyDict
    /\ objects = <<>>
    /\ nextRef = 1
    /\ name = None
    /\ region_name = None
    /\ ret = Call("start", None, "", None)
    /\ last = Call("start", None, "", None)

(***************************************************************************)
(* Construction, as main() does it: inputs of SpecConstruct                *)
(***************************************************************************)

ConstructOptions ==
    {EmptyDict,
     "LOG_URI" :> "s3://logs",
     "LOG_URI" :> "",
     "LOG_URI_TEMPLATE" :> "s3://{{logs}}/{pipeline_name}",
     "EC2_AMI" :> "ami-1"}

ConstructDefaults ==
    {EmptyDict,
     "LOG_URI_TEMPLATE" :> "s3://{{logs}}/{pipeline_name}",
     "PIPELINE_ROLE" :> "DefaultRole"}

InitConstruct ==
    \E unset \in SUBSET GeneralKeys, logs \in SUBSET {"LOG_URI", "LOG_URI_TEMPLATE"} :
        /\ Cardinality(unset) <= MaxMissing
        /\ StartWith(BuilderEnv((GeneralKeys \ unset) \cup logs))

NextConstruct ==
    \/ \E options \in ConstructOptions, defaults \in ConstructDefaults :
          PipelineOptionsInit(options, defaults, "PIPELINE")
    \/ \E n \in Names, region \in Regions : EasyPipelineInit(n, region)

SpecConstruct == InitConstruct /\ [][NextConstruct]_vars

(***************************************************************************)
(* The builder and its caller: inputs of Spec                              *)
(***************************************************************************)

IdName(i) == IF i = 1 THEN "DefaultSchedule" ELSE "Id" \o ToString(i)
Ids == {"Default"} \cup {IdName(i) : i \in 1..MaxIds}
CallerFields == {<<"scheduleType", "ondemand">>}
BuilderOptions == {EmptyDict, "LOG_URI" :> "s3://logs"}

Init ==
    \E logs \in {{}, {"LOG_URI"}, {"LOG_URI_TEMPLATE"}} :
        StartWith(BuilderEnv(GeneralKeys \cup logs))

Next ==
    \/ \E options \in BuilderOptions :
          PipelineOptionsInit(options, EmptyDict, "PIPELINE")
    \/ \E n \in Names : EasyPipelineInit(n, DefaultRegion)
    \/ get_defaults
    \/ \E id \in Ids : get_shell_command_activity(id)
    \/ \E id \in Ids : get_schedule(id)
    \/ \E id \in Ids : get_ec2_resource(id)
    \/ \E id \in Ids : get_sns_alarm(id)
    \/ \E id \in Ids : get_sns_failure_handler(id)
    \/ \E i \in 1..Len(objects), f \in CallerFields : SetField(i, f[1], f[2])

Spec == Init /\ [][Next]_vars

(***************************************************************************)
(* The resolver on its own: inputs of SpecOptions                          *)
(***************************************************************************)

OptKeys == {"X", "LOG_URI"}
OptPrefixes == {None, "", "PIPELINE"}
OptValues == {"", "explicit"}
DefaultValues == {"fallback"}
EnvValues == {"from_env"}
OptEnvVars == {p \o k : p \in {"", "PIPELINE_"}, k \in OptKeys}

Dicts(keys, values) == UNION {[ks -> values] : ks \in SUBSET keys}

InitOptions == \E e \in Dicts(OptEnvVars, EnvValues) : StartWith(e)

NextOptions ==
    \/ \E options \in Dicts(OptKeys, OptValues),
          defaults \in Dicts(OptKeys, DefaultValues),
          prefix \in OptPrefixes :
            PipelineOptionsInit(options, defaults, prefix)
    \/ \E key \in OptKeys, value \in OptValues : SetItem(key, value)
    \/ \E key \in OptKeys : GetItem(key)
    \/ \E key \in OptKeys : DelItem(key)
    \/ Iter
    \/ Length
    \/ \E var \in OptEnvVars, value \in EnvValues : PutEnv(var, value)
    \/ \E var \in OptEnvVars : UnsetEnv(var)

SpecOptions == InitOptions /\ [][NextOptions]_vars

(***************************************************************************)
(* Claims about the resolver (checked under SpecOptions)                   *)
(***************************************************************************)

\* The environment variable a key is read from, as the documentation names it
PrefixedName(key) ==
    IF env_prefix = None \/ env_prefix = "" THEN key ELSE env_prefix \o "_" \o key

\* C1: get(key) returns the explicit-table value when the key is in the
\* explicit table (the empty string included, an environment variable of the
\* prefixed name notwithstanding); otherwise the value of the environment
\* variable prefix_key (key alone when the prefix is empty); otherwise it
\* raises KeyError.
C1_LookupOrder ==
    ret.op = "get" =>
        IF ret.arg \in DOMAIN _items
        THEN ret.exc = "" /\ ret.val = _items[ret.arg]
        ELSE IF PrefixedName(ret.arg) \in DOMAIN env
             THEN ret.exc = "" /\ ret.val = env[PrefixedName(ret.arg)]
             ELSE ret.exc = "KeyError"

\* An explicit empty string was read while the prefixed variable is set
C1_Witness ==
    /\ ret.op = "get" /\ ret.exc = "" /\ ret.val = ""
    /\ env_prefix = "PIPELINE"
    /\ ret.arg \in DOMAIN _items
    /\ ("PIPELINE_" \o ret.arg) \in DOMAIN env

\* C8, at construction: a key of defaults that is not in options holds the
\* prefixed environment variable's value if it is set, else the literal
\* default; a key of options holds its option value.
C8_Seeded ==
    ret.op = "PipelineOptions" =>
        /\ DOMAIN _items = DOMAIN ret.options \cup DOMAIN ret.defaults
        /\ \A k \in DOMAIN ret.options : _items[k] = ret.options[k]
        /\ \A k \in DOMAIN ret.defaults \ DOMAIN ret.options :
              _items[k] = IF PrefixedName(k) \in DOMAIN env
                          THEN env[PrefixedName(k)]
                          ELSE ret.defaults[k]

\* C8, afterwards: a step other than set(k, value) keeps the table's value
\* for k, whatever happens to the environment, and get(k) returns it.
C8_Kept ==
    \A k \in DOMAIN _items :
        pc = "options" /\ ~(ret'.op = "set" /\ ret'.arg = k) =>
            /\ k \in DOMAIN _items' /\ _items'[k] = _items[k]
            /\ (ret'.op = "get" /\ ret'.arg = k =>
                    ret'.exc = "" /\ ret'.val = _items[k])

\* C8: the defaults are seeded from the environment at construction, and a
\* seeded key keeps its value under later changes of the environment until
\* it is set again.
C8_DefaultsSeeding == []C8_Seeded /\ [][C8_Kept]_vars

\* A key seeded from the environment is read back after its variable is gone
C8_Witness ==
    /\ ret.op = "get" /\ ret.arg = "X" /\ ret.val = "from_env"
    /\ env_prefix = "PIPELINE"
    /\ "PIPELINE_X" \notin DOMAIN env

\* C10: delete, iterate and length raise NotImplementedError and leave the
\* resolver as it was: every key resolves as before.
C10_Unsupported ==
    [][ret'.op \in {"del", "iter", "len"} =>
          /\ ret'.exc = "NotImplementedError"
          /\ _items' = _items /\ env' = env /\ _env_prefix' = _env_prefix]_vars

\* A delete of a key of the explicit table was refused
C10_Witness ==
    /\ ret.op = "del" /\ ret.exc = "NotImplementedError"
    /\ ret.arg \in DOMAIN _items

(***************************************************************************)
(* Claims about construction (checked under SpecConstruct)                 *)
(***************************************************************************)

RequiredKeys ==
    {"LOG_URI", "PIPELINE_ROLE", "PIPELINE_RESOURCE_ROLE", "EC2_AMI",
     "EC2_KEYPAIR", "EC2_SUBNET", "EC2_SECURITY_GROUP"}

\* A key resolves: it is in the explicit table or its variable is set
Resolves(items, e, key) == key \in DOMAIN items \/ PrefixedName(key) \in DOMAIN e

Resolved(items, e, key) ==
    IF key \in DOMAIN items THEN items[key] ELSE e[PrefixedName(key)]

Range(seq) == {seq[i] : i \in 1..Len(seq)}

\* C2: construction raises ValueError exactly when a required key does not
\* resolve after the LOG_URI synthesis, and the error names every such key.
C2_MissingKeys ==
    ret.op = "EasyPipeline" =>
        LET unresolved == {k \in RequiredKeys : ~Resolves(_items, env, k)}
        IN  /\ ret.exc = "ValueError" <=> unresolved # {}
            /\ ret.exc = "ValueError" <=> pc = "failed"
            /\ ret.exc = "ValueError" => Range(ret.missing) = unresolved

\* Construction failed and the error names two keys
C2_Witness ==
    /\ ret.op = "EasyPipeline" /\ ret.exc = "ValueError"
    /\ Len(ret.missing) = 2
    /\ "LOG_URI" \notin Range(ret.missing)

\* What the two templates of the inputs read as, region and name filled in
Substituted(template, region, n) ==
    CASE template = "{region}-{pipeline_name}" -> region \o "-" \o n
      [] template = "s3://{{logs}}/{pipeline_name}" -> "s3://{logs}/" \o n

\* The construction step of C9, from the resolver before it to the one after
C9_Step ==
    ret'.op = "EasyPipeline" =>
        IF /\ ~Resolves(_items, env, "LOG_URI")
           /\ Resolves(_items, env, "LOG_URI_TEMPLATE")
        THEN LET uri == Substituted(Resolved(_items, env, "LOG_URI_TEMPLATE"),
                                    region_name', name')
             IN  /\ DOMAIN _items' = DOMAIN _items \cup {"LOG_URI"}
                 /\ _items'["LOG_URI"] = uri
                 /\ \A k \in DOMAIN _items : _items'[k] = _items[k]
                 /\ ret'.exc = "ValueError" => "LOG_URI" \notin Range(ret'.missing)
                 /\ pc' = "built" => objects'[1].attrs.pipelineLogUri = uri
        ELSE _items' = _items

\* C9: construction writes LOG_URI into the resolver, as the template with
\* region and name substituted, exactly when LOG_URI does not resolve and
\* LOG_URI_TEMPLATE does; the written value counts for the validation and
\* is the Default record's log URI.  Otherwise the resolver is not written.
C9_LogUriSynthesis == [][C9_Step]_vars

\* LOG_URI was synthesized from "{region}-{pipeline_name}"
C9_Witness ==
    /\ ret.op = "EasyPipeline" /\ pc = "built"
    /\ "PIPELINE_LOG_URI" \notin DOMAIN env
    /\ _items["LOG_URI"] = "us-east-1-demo"
    /\ objects[1].attrs.pipelineLogUri = "us-east-1-demo"

(***************************************************************************)
(* Claims about the accessors (checked under Spec)                         *)
(***************************************************************************)

DefaultAt(objs) == {i \in 1..Len(objs) : objs[i].id = "Default"}

TheDefault(objs) == objs[CHOOSE i \in DefaultAt(objs) : TRUE]

\* The record has the field and the field has this value
Has(obj, attr, value) == attr \in DOMAIN obj.attrs /\ obj.attrs[attr] = value

KindOf ==
    [get_defaults |-> "DataPipelineObject",
     get_shell_command_activity |-> "ShellCommandActivity",
     get_schedule |-> "Schedule",
     get_ec2_resource |-> "Ec2Resource",
     get_sns_alarm |-> "SnsAlarm",
     get_sns_failure_handler |-> "SnsAlarm"]

\* C3: once the pipeline is constructed the registry holds exactly one record
\* with id "Default", whatever accessors are called with whatever ids; right
\* after construction that record's schedule type is on-demand.
C3_OneDefault ==
    pc = "built" =>
        /\ Cardinality(DefaultAt(objects)) = 1
        /\ ret.op = "EasyPipeline" =>
              Has(TheDefault(objects), "scheduleType", "ondemand")

\* An accessor of another kind was called with the id "Default"
C3_Witness ==
    /\ pc = "built"
    /\ ret.op = "get_sns_alarm" /\ ret.arg = "Default"
    /\ Len(objects) > 1

\* An accessor is called again with the id of its last call, the caller
\* having at most written fields in between
C4_Step ==
    /\ ret'.op \in DOMAIN KindOf
    /\ last.op = ret'.op /\ last.arg = ret'.arg /\ last.exc = ""
    => /\ ret'.exc = "" /\ ret'.obj = last.obj
       /\ Len(objects') = Len(objects)
       /\ \A i \in 1..Len(objects) :
             objects[i].ref = last.obj => objects'[i] = objects[i]

\* C4: a second call of an accessor with the same id returns the same record,
\* adds no record and leaves the fields of that record as the caller set them.
C4_SecondCall == [][C4_Step]_vars

\* C5: an accessor called with an id bound to a record of another kind fails:
\* a call that returns, returns a record of the accessor's kind.
C5_KindMismatchFails ==
    ret.op \in DOMAIN KindOf /\ ret.exc = "" =>
        \A i \in 1..Len(objects) :
            objects[i].ref = ret.obj => objects[i].cls = KindOf[ret.op]

\* C6, after a call: the Default record is cron and refers to the returned record
C6_After ==
    ret.op = "get_schedule" /\ ret.exc = "" =>
        /\ Has(TheDefault(objects), "scheduleType", "cron")
        /\ Has(TheDefault(objects), "schedule", ret.obj)

\* C6, a repeated call: no error, and Default refers to the record the id held
C6_Repeat ==
    \A i \in 1..Len(objects) :
        ret'.op = "get_schedule" /\ ret'.arg = objects[i].id =>
            /\ ret'.exc = ""
            /\ Has(TheDefault(objects'), "schedule", objects[i].ref)

RefersToSchedule(objs) ==
    "schedule" \in DOMAIN TheDefault(objs).attrs =>
        \A i \in 1..Len(objs) :
            objs[i].ref = TheDefault(objs).attrs.schedule => objs[i].cls = "Schedule"

Others(attrs) == [a \in DOMAIN attrs \ {"scheduleType", "schedule"} |-> attrs[a]]

\* What a returning get_schedule(id) does to the records that existed
C7_Step ==
    ret'.op = "get_schedule" /\ ret'.exc = "" =>
        /\ Has(TheDefault(objects'), "scheduleType", "cron")
        /\ Has(TheDefault(objects'), "schedule", ret'.obj)
        /\ \A i \in 1..Len(objects) :
              /\ objects'[i].ref = objects[i].ref
              /\ objects'[i].id = objects[i].id
              /\ objects'[i].cls = objects[i].cls
              /\ IF objects[i].id = "Default"
                 THEN Others(objects'[i].attrs) = Others(objects[i].attrs)
                 ELSE objects'[i].attrs = objects[i].attrs

====
